---- MODULE Spec2Model ----
(***************************************************************************)
(* A model of libsse_crypto's opaque primitives: the authenticated Cipher  *)
(* (cipher.cpp), the two versions of the Prf template present in the       *)
(* sources (the counter-mode one and the older single-block one) and the   *)
(* SetHash wrapper around the multiset hash (set_hash.cpp).                *)
(*                                                                         *)
(* Every public operation is one action that models the whole call.  The   *)
(* record `call` (resp. prfCall) is what the caller observes of the last   *)
(* call: its input, the output string before and after it, the exception   *)
(* it ended with and the external primitives it invoked, in order.         *)
(*                                                                         *)
(* The components do not share state, so each has its own specification    *)
(* that leaves the variables of the others at their initial value:         *)
(* SpecLen, SpecCipher and SpecKey for the Cipher and the ownership of     *)
(* keys, SpecPrf and SpecPrfLoop for the Prf templates (whole calls, and   *)
(* the counter-mode loop one iteration at a time), SpecSetHash,            *)
(* SpecSetAlgebra and SpecSetLife for SetHash (element operations, the     *)
(* operations on whole sets and the hex encoding, and the lifetime of the  *)
(* objects).                                                               *)
(***************************************************************************)
EXTENDS Integers, Sequences, FiniteSets, TLC

VARIABLES
    lenCall,    \* last call of ciphertext_length / plaintext_length
    callerKey,  \* the Key<kKeySize> object the caller hands to Cipher::Cipher
    key_,       \* CipherImpl::key_ (<<>> while no Cipher is constructed)
    enc,        \* the last successful encryption: plaintext, ciphertext, nonce, subkey
    call,       \* the last Cipher call as the caller observes it
    prf,        \* the Prf object: which template, NBYTES, the key of base_
    ndebug,     \* whether the build defines NDEBUG (assert compiled out)
    keyHolders, \* who, besides the Prf, got hold of the Prf's key bytes
    prfFirst,   \* per input, what the first prf call on it returned
    prfCall,    \* the last Prf call as the caller observes it
    loop,       \* the counter-mode loop of a prf call, iteration by iteration
    state_,     \* SetHashImpl::state_ of each SetHash object
    applied,    \* per SetHash object, the operations applied to it, in order
    setCall,    \* the last SetHash call: its arguments, state_ before it, its result
    objects,    \* SetHash objects by storage: lifetime and set_hash_imp_
    impls,      \* the SetHashImpl objects allocated with new, by address
    lifeCall    \* the last call on the SetHash objects in `objects`

lenVars == <<lenCall>>

cipherVars == <<callerKey, key_, enc, call>>

prfVars == <<prf, ndebug, keyHolders, prfFirst, prfCall, loop>>

lifeVars == <<objects, impls, lifeCall>>

setVars == <<state_, applied, setCall, lifeVars>>

vars == <<lenCall, callerKey, key_, enc, call, prf, ndebug, keyHolders, prfFirst,
          prfCall, loop, state_, applied, setCall, objects, impls, lifeCall>>

----------------------------------------------------------------------------
(* Bytes and buffers *)

Byte == 0..255

Bit(b, k) == (b \div (2^k)) % 2

\* b with bit k inverted
FlipBit(b, k) == IF Bit(b, k) = 1 THEN b - 2^k ELSE b + 2^k

\* (SubSeq makes a function over 1..n the explicit tuple of its values)
Zeros(n) == SubSeq([i \in 1..n |-> 0], 1, n)

Filled(n, g) == SubSeq([i \in 1..n |-> g], 1, n)

\* memcpy-like write of `bytes` into buf at byte offset off
WriteAt(buf, off, bytes) ==
    SubSeq([i \in 1..Len(buf) |->
               IF off < i /\ i <= off + Len(bytes) THEN bytes[i - off] ELSE buf[i]],
           1, Len(buf))

\* the n bytes of buf from byte offset off
ReadAt(buf, off, n) == SubSeq(buf, off + 1, off + n)

\* a position-weighted byte sum (odd weights), the digest all stand-ins
\* of the external primitives are built on
RECURSIVE WSumTo(_, _)
WSumTo(s, n) ==
    IF n = 0 THEN 0 ELSE ((2 * n - 1) * s[n] + WSumTo(s, n - 1)) % 256

WSum(s) == WSumTo(s, Len(s))

\* a and b differ in exactly one bit
IsBitFlip(a, b) ==
    /\ Len(a) = Len(b)
    /\ \E p \in 1..Len(a) :
          /\ \A i \in 1..Len(a) : (i # p) => (a[i] = b[i])
          /\ \E k \in 0..7 : b[p] = FlipBit(a[p], k)

\* every string at Hamming distance one of s
AllFlips(s) ==
    {[s EXCEPT ![p] = FlipBit(s[p], k)] : p \in 1..Len(s), k \in 0..7}

----------------------------------------------------------------------------
(* Bounds of the model *)

\* width of size_t in the model (the arithmetic wraps at 2^SizeBits exactly
\* as the 64-bit one does at 2^64)
SizeBits == 8

\* longest plaintext the caller encrypts
MaxPlainLen == 2

SizeMod == 2^SizeBits

SIZE_MAX == SizeMod - 1

----------------------------------------------------------------------------
(* Constants of cipher.cpp *)

crypto_generichash_blake2b_SALTBYTES == 16

crypto_generichash_blake2b_PERSONALBYTES == 16

crypto_aead_chacha20poly1305_IETF_ABYTES == 16

crypto_aead_chacha20poly1305_IETF_NPUBBYTES == 12

crypto_aead_chacha20poly1305_KEYBYTES == 32

kKeySize == 32

NONCE_SIZE == crypto_generichash_blake2b_SALTBYTES

\* "encryption_key", zero padded to PERSONALBYTES
hash_personal__ ==
    <<101, 110, 99, 114, 121, 112, 116, 105, 111, 110, 95, 107, 101, 121, 0, 0>>

----------------------------------------------------------------------------
(* Cipher::ciphertext_length / Cipher::plaintext_length, on size_t *)

ciphertext_length_noTag(plaintext_len) ==
    (plaintext_len + NONCE_SIZE) % SizeMod

ciphertext_length(plaintext_len) ==
    (plaintext_len + NONCE_SIZE + crypto_aead_chacha20poly1305_IETF_ABYTES) % SizeMod

plaintext_length_noTag(c_len) ==
    IF c_len > NONCE_SIZE + crypto_aead_chacha20poly1305_IETF_ABYTES
    THEN (c_len - NONCE_SIZE) % SizeMod
    ELSE 0

plaintext_length(c_len) ==
    IF c_len > NONCE_SIZE + crypto_aead_chacha20poly1305_IETF_ABYTES
    THEN (c_len - NONCE_SIZE - crypto_aead_chacha20poly1305_IETF_ABYTES) % SizeMod
    ELSE 0

NoLenCall == [op |-> "none", arg |-> 0, res |-> 0, of |-> 0]

\* Cipher::ciphertext_length(plaintext_len), any size_t argument
CiphertextLength(l) ==
    /\ lenCall.op = "none"
    /\ lenCall' = [op |-> "ciphertext_length", arg |-> l,
                   res |-> ciphertext_length(l), of |-> l]
    /\ UNCHANGED <<cipherVars, prfVars, setVars>>

\* Cipher::plaintext_length(c_len), any size_t argument
PlaintextLength(c) ==
    /\ lenCall.op = "none"
    /\ lenCall' = [op |-> "plaintext_length", arg |-> c,
                   res |-> plaintext_length(c), of |-> c]
    /\ UNCHANGED <<cipherVars, prfVars, setVars>>

\* Cipher::plaintext_length applied to the result of the last
\* ciphertext_length call; `of` keeps the plaintext length that call was given
PlaintextLengthOfCiphertextLength ==
    /\ lenCall.op = "ciphertext_length"
    /\ lenCall' = [op |-> "plaintext_length_of_ciphertext_length",
                   arg |-> lenCall.res,
                   res |-> plaintext_length(lenCall.res), of |-> lenCall.arg]
    /\ UNCHANGED <<cipherVars, prfVars, setVars>>

----------------------------------------------------------------------------
(* Stand-ins of the external primitives (libsodium).  They are concrete,   *)
(* deterministic functions on bytes with the properties of the ideal       *)
(* primitives that matter at distance one: changing one bit of the key,    *)
(* the salt, the nonce or the message changes the output.                  *)

\* crypto_generichash_blake2b_salt_personal(out, outlen, NULL, 0, key, keylen,
\* salt, personal): outlen bytes keyed by key, salted and personalised
crypto_generichash_blake2b_salt_personal(outlen, key, salt, personal) ==
    LET d == (WSum(key) + WSum(salt) + WSum(personal)) % 256
    IN  SubSeq([j \in 1..outlen |-> (d + 3 * j) % 256], 1, outlen)

\* Poly1305 tag of the encrypted message c under key k and nonce npub
Tag(k, npub, c) ==
    LET dn == WSum(npub)
        dc == WSum(c)
    IN  SubSeq([j \in 1..crypto_aead_chacha20poly1305_IETF_ABYTES |->
                   CASE j = 1 -> k[1]
                     [] j = 2 -> dn
                     [] j = 3 -> dc
                     [] OTHER -> (k[1] + dn + dc + j) % 256],
               1, crypto_aead_chacha20poly1305_IETF_ABYTES)

\* crypto_aead_chacha20poly1305_ietf_encrypt(c, &clen, m, mlen, NULL, 0, NULL,
\* npub, k): the bytes written at c (mlen + ABYTES of them); byte i of the
\* message is masked by the key stream byte (k[1] + WSum(npub) + 5 i) mod 256
crypto_aead_chacha20poly1305_ietf_encrypt(m, npub, k) ==
    LET ks0  == (k[1] + WSum(npub)) % 256
        body == SubSeq([i \in 1..Len(m) |-> (m[i] + ks0 + 5 * i) % 256], 1, Len(m))
    IN  body \o Tag(k, npub, body)

\* crypto_aead_chacha20poly1305_ietf_decrypt(m, &mlen, NULL, c, clen, NULL, 0,
\* npub, k): the return value, *mlen_p, and the bytes written at m (none when
\* clen < ABYTES; zeros over the message length when the tag is wrong)
crypto_aead_chacha20poly1305_ietf_decrypt(c, npub, k) ==
    LET abytes == crypto_aead_chacha20poly1305_IETF_ABYTES
        mlen   == Len(c) - abytes
        body   == SubSeq(c, 1, mlen)
        tag    == SubSeq(c, mlen + 1, Len(c))
        ks0    == (k[1] + WSum(npub)) % 256
    IN  IF Len(c) < abytes
        THEN [ret |-> -1, m_len |-> 0, m |-> <<>>]
        ELSE IF tag = Tag(k, npub, body)
        THEN [ret |-> 0, m_len |-> mlen,
              m |-> SubSeq([i \in 1..mlen |-> (body[i] - ks0 - 5 * i) % 256],
                           1, mlen)]
        ELSE [ret |-> -1, m_len |-> 0, m |-> Zeros(mlen)]

----------------------------------------------------------------------------
(* Inputs of the Cipher calls *)

\* the master keys a caller may hand over (kKeySize bytes each)
Keys ==
    {Filled(kKeySize, 1), SubSeq([i \in 1..kKeySize |-> (7 * i) % 256], 1, kKeySize)}

\* outcomes of random_bytes(NONCE_SIZE, out)
Nonces ==
    {Zeros(NONCE_SIZE),
     SubSeq([i \in 1..NONCE_SIZE |-> (13 * i) % 256], 1, NONCE_SIZE)}

PlainBytes == {7, 200}

\* the strings given to encrypt: every string of PlainBytes up to MaxPlainLen,
\* the empty one included
Plaintexts == UNION {[1..n -> PlainBytes] : n \in 0..MaxPlainLen}

\* contents of the caller's output string before a call
OutSamples == {<<>>, <<42>>}

\* contents of freshly allocated, unwritten memory
GarbageBytes == {0, 170}

\* lengths around the minimum a ciphertext must exceed
ShortLens ==
    {0, 1,
     NONCE_SIZE + crypto_aead_chacha20poly1305_IETF_ABYTES - 1,
     NONCE_SIZE + crypto_aead_chacha20poly1305_IETF_ABYTES}

\* the strings given to decrypt: the last ciphertext, each of its single-bit
\* flips, its truncations to a short length, and short constant strings
DecryptInputs ==
    (IF enc.ct = <<>> THEN {} ELSE {enc.ct} \cup AllFlips(enc.ct))
    \cup {Zeros(n) : n \in ShortLens}
    \cup {SubSeq(enc.ct, 1, n) : n \in {m \in ShortLens : m <= Len(enc.ct)}}

NoEnc == [pt |-> <<>>, ct |-> <<>>, nonce |-> <<>>, subkey |-> <<>>]

NoCall ==
    [op |-> "none", in |-> <<>>, outBefore |-> <<>>, out |-> <<>>,
     err |-> "none", trace |-> <<>>, nonce |-> <<>>, subkey |-> <<>>,
     chacha_key |-> <<>>, data |-> <<>>]

----------------------------------------------------------------------------
(* Key<N>: the lock of the key content.  A Key is locked from construction,   *)
(* unlock() exposes its bytes and lock() protects them again; neither throws. *)

\* Key<N>::unlock()
Key_unlock(locked) == FALSE

\* Key<N>::lock()
Key_lock(locked) == TRUE

\* whether key_ is locked after the first n events of the trace of a call that
\* starts with key_ locked
RECURSIVE KeyLockedAfter(_, _)
KeyLockedAfter(trace, n) ==
    IF n = 0 THEN TRUE
    ELSE LET locked == KeyLockedAfter(trace, n - 1)
         IN  CASE trace[n] = "unlock" -> Key_unlock(locked)
               [] trace[n] = "lock"   -> Key_lock(locked)
               [] OTHER               -> locked

----------------------------------------------------------------------------
(* Cipher::CipherImpl *)

\* in.empty(), the guard of the string overload of encrypt
in_empty_never(in) == FALSE

in_empty(in) == Len(in) = 0

\* ret == -1, the guard of the failure path of decrypt
invalid_decryption_ignored(ret) == FALSE

invalid_decryption(ret) == ret = -1

\* encrypt(const unsigned char* in, const size_t& len, unsigned char* out)
\* with the AEAD output written at out instead of out + NONCE_SIZE
encrypt_raw_overNonce(key, in, len, out, nonce) ==
    LET out1 == WriteAt(out, 0, nonce)
        chacha_key ==
            crypto_generichash_blake2b_salt_personal(
                crypto_aead_chacha20poly1305_KEYBYTES, key,
                ReadAt(out1, 0, crypto_generichash_blake2b_SALTBYTES),
                hash_personal__)
        c == crypto_aead_chacha20poly1305_ietf_encrypt(
                ReadAt(in, 0, len),
                ReadAt(out1, 0, crypto_aead_chacha20poly1305_IETF_NPUBBYTES),
                chacha_key)
    IN  [out |-> WriteAt(out1, 0, c), nonce |-> nonce, subkey |-> chacha_key,
         chacha_key |-> Zeros(crypto_aead_chacha20poly1305_KEYBYTES),
         trace |-> <<"random_bytes", "unlock", "generichash", "lock",
                     "aead_encrypt", "memzero_key">>]

\* encrypt(const unsigned char* in, const size_t& len, unsigned char* out)
\* with key_.lock() called after the AEAD instead of before it
encrypt_raw_lockAfterAead(key, in, len, out, nonce) ==
    LET out1 == WriteAt(out, 0, nonce)
        chacha_key ==
            crypto_generichash_blake2b_salt_personal(
                crypto_aead_chacha20poly1305_KEYBYTES, key,
                ReadAt(out1, 0, crypto_generichash_blake2b_SALTBYTES),
                hash_personal__)
        c == crypto_aead_chacha20poly1305_ietf_encrypt(
                ReadAt(in, 0, len),
                ReadAt(out1, 0, crypto_aead_chacha20poly1305_IETF_NPUBBYTES),
                chacha_key)
    IN  [out |-> WriteAt(out1, NONCE_SIZE, c), nonce |-> nonce,
         subkey |-> chacha_key,
         chacha_key |-> Zeros(crypto_aead_chacha20poly1305_KEYBYTES),
         trace |-> <<"random_bytes", "unlock", "generichash", "aead_encrypt",
                     "lock", "memzero_key">>]

\* encrypt(const unsigned char* in, const size_t& len, unsigned char* out);
\* nonce is what random_bytes returns
encrypt_raw(key, in, len, out, nonce) ==
    LET \* random_bytes(NONCE_SIZE, out)
        out1 == WriteAt(out, 0, nonce)
        \* key_.unlock(); subkey from the master key and the salt at out; key_.lock()
        chacha_key ==
            crypto_generichash_blake2b_salt_personal(
                crypto_aead_chacha20poly1305_KEYBYTES, key,
                ReadAt(out1, 0, crypto_generichash_blake2b_SALTBYTES),
                hash_personal__)
        \* AEAD of in under the subkey, nonce read at out, written at out + NONCE_SIZE
        c == crypto_aead_chacha20poly1305_ietf_encrypt(
                ReadAt(in, 0, len),
                ReadAt(out1, 0, crypto_aead_chacha20poly1305_IETF_NPUBBYTES),
                chacha_key)
    IN  [out |-> WriteAt(out1, NONCE_SIZE, c), nonce |-> nonce,
         subkey |-> chacha_key,
         \* sodium_memzero(chacha_key, KEYBYTES)
         chacha_key |-> Zeros(crypto_aead_chacha20poly1305_KEYBYTES),
         trace |-> <<"random_bytes", "unlock", "generichash", "lock",
                     "aead_encrypt", "memzero_key">>]

\* encrypt(const std::string& in, std::string& out); o is out before the call,
\* g the content of the memory new[] returns
encrypt(key, in, o, nonce, g) ==
    IF in_empty(in)
    THEN [NoCall EXCEPT !.op = "encrypt", !.in = in, !.outBefore = o, !.out = o,
                        !.err = "invalid_argument"]
    ELSE LET len   == Len(in)
             c_len == ciphertext_length(len)
             data  == Filled(c_len, g)
             r     == encrypt_raw(key, in, len, data, nonce)
         IN  [op |-> "encrypt", in |-> in, outBefore |-> o,
              out |-> ReadAt(r.out, 0, c_len), err |-> "none",
              trace |-> r.trace \o <<"memzero_data">>, nonce |-> r.nonce,
              subkey |-> r.subkey, chacha_key |-> r.chacha_key,
              \* sodium_memzero(data, c_len)
              data |-> Zeros(c_len)]

\* decrypt(const unsigned char* in, const size_t& len, unsigned char* out)
\* with a primitive that writes the decrypted bytes before it verifies the tag
decrypt_raw_decryptFirst(key, in, len, out) ==
    IF len < ciphertext_length(0)
    THEN [err |-> "invalid_argument", out |-> out, subkey |-> <<>>,
          chacha_key |-> <<>>, trace |-> <<>>]
    ELSE LET chacha_key ==
                 crypto_generichash_blake2b_salt_personal(
                     crypto_aead_chacha20poly1305_KEYBYTES, key,
                     ReadAt(in, 0, crypto_generichash_blake2b_SALTBYTES),
                     hash_personal__)
             npub == ReadAt(in, 0, crypto_aead_chacha20poly1305_IETF_NPUBBYTES)
             c    == ReadAt(in, NONCE_SIZE, len - NONCE_SIZE)
             r    == crypto_aead_chacha20poly1305_ietf_decrypt(c, npub, chacha_key)
             mlen == Len(c) - crypto_aead_chacha20poly1305_IETF_ABYTES
             ks0  == (chacha_key[1] + WSum(npub)) % 256
             out1 == WriteAt(out, 0,
                             SubSeq([i \in 1..mlen |-> (c[i] - ks0 - 5 * i) % 256],
                                    1, mlen))
             tr   == <<"unlock", "generichash", "lock", "aead_decrypt",
                       "memzero_key">>
         IN  IF invalid_decryption(r.ret)
             THEN [err |-> "runtime_error",
                   out |-> WriteAt(out1, 0, Zeros(r.m_len)),
                   subkey |-> chacha_key,
                   chacha_key |-> Zeros(crypto_aead_chacha20poly1305_KEYBYTES),
                   trace |-> tr \o <<"memzero_out">>]
             ELSE [err |-> "none", out |-> out1, subkey |-> chacha_key,
                   chacha_key |-> Zeros(crypto_aead_chacha20poly1305_KEYBYTES),
                   trace |-> tr]

\* decrypt(const unsigned char* in, const size_t& len, unsigned char* out)
\* with the derived key erased only on the path that returns
decrypt_raw_keyLeftOnFailure(key, in, len, out) ==
    IF len < ciphertext_length(0)
    THEN [err |-> "invalid_argument", out |-> out, subkey |-> <<>>,
          chacha_key |-> <<>>, trace |-> <<>>]
    ELSE LET chacha_key ==
                 crypto_generichash_blake2b_salt_personal(
                     crypto_aead_chacha20poly1305_KEYBYTES, key,
                     ReadAt(in, 0, crypto_generichash_blake2b_SALTBYTES),
                     hash_personal__)
             r == crypto_aead_chacha20poly1305_ietf_decrypt(
                     ReadAt(in, NONCE_SIZE, len - NONCE_SIZE),
                     ReadAt(in, 0, crypto_aead_chacha20poly1305_IETF_NPUBBYTES),
                     chacha_key)
             out1 == WriteAt(out, 0, r.m)
             tr   == <<"unlock", "generichash", "lock", "aead_decrypt">>
         IN  IF invalid_decryption(r.ret)
             THEN [err |-> "runtime_error",
                   out |-> WriteAt(out1, 0, Zeros(r.m_len)),
                   subkey |-> chacha_key, chacha_key |-> chacha_key,
                   trace |-> tr \o <<"memzero_out">>]
             ELSE [err |-> "none", out |-> out1, subkey |-> chacha_key,
                   chacha_key |-> Zeros(crypto_aead_chacha20poly1305_KEYBYTES),
                   trace |-> tr \o <<"memzero_key">>]

\* decrypt(const unsigned char* in, const size_t& len, unsigned char* out)
decrypt_raw(key, in, len, out) ==
    IF len < ciphertext_length(0)
    THEN [err |-> "invalid_argument", out |-> out, subkey |-> <<>>,
          chacha_key |-> <<>>, trace |-> <<>>]
    ELSE LET \* key_.unlock(); subkey from the master key and the salt at in; key_.lock()
             chacha_key ==
                 crypto_generichash_blake2b_salt_personal(
                     crypto_aead_chacha20poly1305_KEYBYTES, key,
                     ReadAt(in, 0, crypto_generichash_blake2b_SALTBYTES),
                     hash_personal__)
             \* AEAD of in + NONCE_SIZE, len - NONCE_SIZE, nonce read at in
             r == crypto_aead_chacha20poly1305_ietf_decrypt(
                     ReadAt(in, NONCE_SIZE, len - NONCE_SIZE),
                     ReadAt(in, 0, crypto_aead_chacha20poly1305_IETF_NPUBBYTES),
                     chacha_key)
             out1 == WriteAt(out, 0, r.m)
             tr   == <<"unlock", "generichash", "lock", "aead_decrypt",
                       "memzero_key">>
         IN  IF invalid_decryption(r.ret)
             THEN [err |-> "runtime_error",
                   \* sodium_memzero(out, m_len)
                   out |-> WriteAt(out1, 0, Zeros(r.m_len)),
                   subkey |-> chacha_key,
                   chacha_key |-> Zeros(crypto_aead_chacha20poly1305_KEYBYTES),
                   trace |-> tr \o <<"memzero_out">>]
             ELSE [err |-> "none", out |-> out1, subkey |-> chacha_key,
                   chacha_key |-> Zeros(crypto_aead_chacha20poly1305_KEYBYTES),
                   trace |-> tr]

\* decrypt(const std::string& in, std::string& out); o is out before the call
decrypt(key, in, o) ==
    LET len == Len(in)
    IN  IF len <= NONCE_SIZE + crypto_aead_chacha20poly1305_IETF_ABYTES
        THEN [NoCall EXCEPT !.op = "decrypt", !.in = in, !.outBefore = o,
                            !.out = o, !.err = "invalid_argument"]
        ELSE LET p_len == plaintext_length(len)
                 \* std::vector<uint8_t> data(p_len): value-initialised
                 data  == Zeros(p_len)
                 r     == decrypt_raw(key, in, len, data)
             IN  [op |-> "decrypt", in |-> in, outBefore |-> o,
                  \* out is assigned only when the raw overload returns
                  out |-> IF r.err = "none" THEN ReadAt(r.out, 0, p_len) ELSE o,
                  err |-> r.err, trace |-> r.trace, nonce |-> <<>>,
                  subkey |-> r.subkey, chacha_key |-> r.chacha_key,
                  data |-> r.out]

----------------------------------------------------------------------------
(* The Cipher operations *)

\* Cipher::Cipher(Key<kKeySize>&& k): key_(std::move(k)) takes the bytes and
\* leaves the caller's Key empty
Construct ==
    /\ key_ = <<>>
    /\ callerKey # <<>>
    /\ key_' = callerKey
    /\ callerKey' = <<>>
    /\ UNCHANGED <<lenCall, enc, call, prfVars, setVars>>

\* A Cipher call changes nothing of the Cipher (key_ is its only state), so
\* what a call does is decided by key_ and its arguments.  The sessions
\* explored are: construction, any number of encrypt calls, then one decrypt
\* call on a string built from the last ciphertext.
InSession == call.op \in {"none", "encrypt"}

\* Cipher::encrypt(in, out)
Encrypt(in, o, nonce, g) ==
    /\ key_ # <<>>
    /\ InSession
    /\ call' = encrypt(key_, in, o, nonce, g)
    /\ enc' = IF call'.err = "none"
              THEN [pt |-> in, ct |-> call'.out, nonce |-> call'.nonce,
                    subkey |-> call'.subkey]
              ELSE enc
    /\ UNCHANGED <<lenCall, callerKey, key_, prfVars, setVars>>

\* Cipher::decrypt(in, out)
Decrypt(in, o) ==
    /\ key_ # <<>>
    /\ InSession
    /\ call' = decrypt(key_, in, o)
    /\ UNCHANGED <<lenCall, callerKey, key_, enc, prfVars, setVars>>

\* CipherImpl::decrypt(in, len, out) called on a buffer of its own: out holds
\* plaintext_length(len) bytes, each of value g before the call
DecryptRaw(in, g) ==
    /\ key_ # <<>>
    /\ InSession
    /\ LET len == Len(in)
           buf == Filled(plaintext_length(len), g)
           r   == decrypt_raw(key_, in, len, buf)
       IN  call' = [op |-> "decrypt_raw", in |-> in, outBefore |-> buf,
                    out |-> r.out, err |-> r.err, trace |-> r.trace,
                    nonce |-> <<>>, subkey |-> r.subkey,
                    chacha_key |-> r.chacha_key, data |-> r.out]
    /\ UNCHANGED <<lenCall, callerKey, key_, enc, prfVars, setVars>>

----------------------------------------------------------------------------
(* Prf<NBYTES>: the counter-mode template (uint16_t NBYTES, with the sources  *)
(* of set_hash.cpp) and the older single-block template (uint8_t NBYTES).     *)

\* Hash::kDigestSize, the digest size of the hash under HMac
kDigestSize == 64

UINT16_MOD == 2^16

UINT8_MOD == 2^8

\* the output lengths the Prf objects are instantiated with
NBytesSamples == {1, 20, kDigestSize, kDigestSize + 1, 2 * kDigestSize, 200}

\* the messages given to prf
PrfMsgs == {<<1>>, <<2, 1>>}

\* the `in` pointers given to prf: NULL, or a buffer holding a message
PrfInputs ==
    {[null |-> TRUE, bytes |-> <<>>]}
    \cup {[null |-> FALSE, bytes |-> b] : b \in PrfMsgs}

NoPrf == [ver |-> "none", NBYTES |-> 0, key |-> <<>>, from |-> "none"]

NoPrfCall ==
    [op |-> "none", in |-> [null |-> FALSE, bytes |-> <<>>], outBefore |-> <<>>,
     res |-> <<>>, err |-> "none", blocks |-> <<>>]

\* HMac::hmac: the kDigestSize bytes of the keyed digest of msg (stand-in of
\* the external keyed hash)
hmac(key, msg) ==
    LET d == (WSum(key) + 3 * WSum(msg) + Len(msg)) % 256
    IN  SubSeq([j \in 1..kDigestSize |-> (d + 7 * j) % 256], 1, kDigestSize)

\* the for loop of the counter mode: tmp holds the input and one more byte,
\* pos is a uint16_t, i a uint8_t; acc is the result array so far and the
\* hmac calls made (where they wrote, how many bytes, under which counter)
RECURSIVE prf_loop(_, _, _, _, _, _)
prf_loop(key, tmp, NBYTES, pos, i, acc) ==
    IF ~(pos < NBYTES) THEN acc
    ELSE LET \* tmp[length] = i
             msg == [tmp EXCEPT ![Len(tmp)] = i]
             n   == IF NBYTES - pos >= kDigestSize THEN kDigestSize
                    ELSE NBYTES - pos
             \* base_.hmac(tmp, length + 1, result.data() + pos, n)
             out == SubSeq(hmac(key, msg), 1, n)
         IN  prf_loop(key, msg, NBYTES,
                      (pos + kDigestSize) % UINT16_MOD, (i + 1) % UINT8_MOD,
                      [result |-> WriteAt(acc.result, pos, out),
                       blocks |-> Append(acc.blocks,
                                         [pos |-> pos, len |-> n, ctr |-> i])])

\* Prf<NBYTES>::prf(const unsigned char* in, const size_t length) of the
\* counter-mode template; g is the content of the uninitialised result array
\* and of the memory new[] returns
prf_ctr(key, NBYTES, in, g) ==
    IF in.null
    THEN [NoPrfCall EXCEPT !.op = "prf", !.in = in, !.err = "invalid_argument"]
    ELSE LET result == Filled(NBYTES, g)
         IN  IF NBYTES > kDigestSize
             THEN LET \* new unsigned char[length + 1]; memcpy(tmp, in, length)
                      tmp == in.bytes \o <<g>>
                      r   == prf_loop(key, tmp, NBYTES, 0, 0,
                                      [result |-> result, blocks |-> <<>>])
                  IN  [op |-> "prf", in |-> in, outBefore |-> result,
                       res |-> r.result, err |-> "none", blocks |-> r.blocks]
             ELSE \* base_.hmac(in, length, result.data(), result.size())
                  [op |-> "prf", in |-> in, outBefore |-> result,
                   res |-> WriteAt(result, 0, SubSeq(hmac(key, in.bytes), 1, NBYTES)),
                   err |-> "none",
                   blocks |-> <<[pos |-> 0, len |-> NBYTES, ctr |-> -1]>>]

\* Prf<NBYTES>::prf(const unsigned char* in, const size_t& length) of the
\* single-block template; g is the content of the uninitialised result array
prf_single(key, NBYTES, in, g, nd) ==
    LET result == Filled(NBYTES, g)
    IN  IF ~nd /\ ~(NBYTES <= kDigestSize)
        THEN \* assert(NBYTES <= kDigestSize) fails
             [NoPrfCall EXCEPT !.op = "prf", !.in = in, !.outBefore = result,
                               !.err = "abort"]
        ELSE IF NBYTES <= kDigestSize
        THEN \* std::copy_n(base_.hmac(in, length).begin(), NBYTES, result.begin())
             [op |-> "prf", in |-> in, outBefore |-> result,
              res |-> WriteAt(result, 0, SubSeq(hmac(key, in.bytes), 1, NBYTES)),
              err |-> "none",
              blocks |-> <<[pos |-> 0, len |-> NBYTES, ctr |-> -1]>>]
        ELSE \* nothing is written: result is returned as it was allocated
             [op |-> "prf", in |-> in, outBefore |-> result, res |-> result,
              err |-> "none", blocks |-> <<>>]

\* Prf<NBYTES>::prf(const unsigned char* in, const size_t& length,
\* unsigned char* out) of the single-block template: base_.hmac(in, length, out)
\* writes a whole digest at out, whatever NBYTES is; out is the caller's buffer
\* of NBYTES bytes
prf_single_raw(key, NBYTES, in, out) ==
    [op |-> "prf_raw", in |-> in, outBefore |-> out,
     res |-> WriteAt(out, 0, hmac(key, in.bytes)), err |-> "none",
     blocks |-> <<[pos |-> 0, len |-> kDigestSize, ctr |-> -1]>>]

\* what a call adds to the record of first results
FirstAfter(c) ==
    IF c.err = "none" /\ ~c.in.null /\ prfFirst[c.in.bytes] = <<>>
    THEN [prfFirst EXCEPT ![c.in.bytes] = c.res]
    ELSE prfFirst

\* Prf<NBYTES>(Key<kKeySize>&& key): base_(std::move(key)), counter-mode template
PrfConstruct(n) ==
    /\ prf.ver = "none"
    /\ callerKey # <<>>
    /\ prf' = [ver |-> "prf_ctr", NBYTES |-> n, key |-> callerKey, from |-> "caller"]
    /\ callerKey' = <<>>
    /\ UNCHANGED <<lenCall, key_, enc, call, ndebug, keyHolders, prfFirst, prfCall,
                   loop, setVars>>

\* Prf<NBYTES>(): base_() holds a freshly drawn key
PrfConstructRandom(ver, n, k) ==
    /\ prf.ver = "none"
    /\ prf' = [ver |-> ver, NBYTES |-> n, key |-> k, from |-> "random"]
    /\ UNCHANGED <<lenCall, cipherVars, ndebug, keyHolders, prfFirst, prfCall,
                   loop, setVars>>

\* Prf<NBYTES>(const std::string& k) (and the const void*, const std::array&
\* ones) of the single-block template: base_(k) copies from a const argument
PrfSingleConstruct(n) ==
    /\ prf.ver = "none"
    /\ callerKey # <<>>
    /\ prf' = [ver |-> "prf_single", NBYTES |-> n, key |-> callerKey,
               from |-> "caller"]
    /\ UNCHANGED <<lenCall, cipherVars, ndebug, keyHolders, prfFirst, prfCall,
                   loop, setVars>>

\* Prf(const Prf<NBYTES>& prf): base_(prf.base_): a second object holds the key
PrfSingleCopy ==
    /\ prf.ver = "prf_single"
    /\ keyHolders' = keyHolders \cup {"Prf(const Prf&)"}
    /\ UNCHANGED <<lenCall, cipherVars, prf, ndebug, prfFirst, prfCall, loop,
                   setVars>>

\* key(): a reference to the key array, handed to the caller
PrfSingleKey ==
    /\ prf.ver = "prf_single"
    /\ keyHolders' = keyHolders \cup {"key()"}
    /\ UNCHANGED <<lenCall, cipherVars, prf, ndebug, prfFirst, prfCall, loop,
                   setVars>>

\* key_data(): a pointer to the key bytes, handed to the caller
PrfSingleKeyData ==
    /\ prf.ver = "prf_single"
    /\ keyHolders' = keyHolders \cup {"key_data()"}
    /\ UNCHANGED <<lenCall, cipherVars, prf, ndebug, prfFirst, prfCall, loop,
                   setVars>>

\* prf(in, length) of the counter-mode template
PrfEval(in, g) ==
    /\ prf.ver = "prf_ctr"
    /\ prfCall' = prf_ctr(prf.key, prf.NBYTES, in, g)
    /\ prfFirst' = FirstAfter(prfCall')
    /\ UNCHANGED <<lenCall, cipherVars, prf, ndebug, keyHolders, loop, setVars>>

\* prf(in, length) of the single-block template (prf(s) and prf_string(s)
\* return what this returns)
PrfSingleEval(in, g) ==
    /\ prf.ver = "prf_single"
    /\ ~in.null
    /\ prfCall' = prf_single(prf.key, prf.NBYTES, in, g, ndebug)
    /\ prfFirst' = FirstAfter(prfCall')
    /\ UNCHANGED <<lenCall, cipherVars, prf, ndebug, keyHolders, loop, setVars>>

\* prf(in, length, out) of the single-block template, on a caller's buffer of
\* NBYTES bytes, each of value g before the call
PrfSingleEvalRaw(in, g) ==
    /\ prf.ver = "prf_single"
    /\ ~in.null
    /\ prfCall' = prf_single_raw(prf.key, prf.NBYTES, in, Filled(prf.NBYTES, g))
    /\ prfFirst' = FirstAfter(prfCall')
    /\ UNCHANGED <<lenCall, cipherVars, prf, ndebug, keyHolders, loop, setVars>>

----------------------------------------------------------------------------
(* The counter-mode loop of Prf<NBYTES>::prf, one iteration at a time, for    *)
(* the output lengths whose loop is long: `loop` holds the locals of the      *)
(* call (tmp, pos, i), the number of iterations made and the last block       *)
(* written into result.                                                        *)

\* iterations after which a loop that has not ended is no longer followed
MaxLoopIters == 1030

\* the output lengths the loop is followed for
LoopNBytes ==
    {kDigestSize + 1, 200, 256 * kDigestSize, 256 * kDigestSize + 1,
     UINT16_MOD - kDigestSize, UINT16_MOD - kDigestSize + 1, UINT16_MOD - 1}

NoBlock == [pos |-> 0, len |-> 0, ctr |-> 0, bytes |-> <<>>]

NoLoop ==
    [pc |-> "none", in |-> <<>>, tmp |-> <<>>, released |-> FALSE, pos |-> 0,
     i |-> 0, iters |-> 0, wrapped |-> FALSE, block |-> NoBlock]

\* pos += PrfBase::kDigestSize on uint16_t pos
pos_next(pos) == (pos + kDigestSize) % UINT16_MOD

\* i++ on uint8_t i
i_next(i) == (i + 1) % UINT8_MOD

\* prf(in, length) with NBYTES > kDigestSize, up to the for statement:
\* tmp = new unsigned char[length + 1]; memcpy(tmp, in, length); pos = 0; i = 0
PrfLoopEnter(in, g) ==
    /\ prf.ver = "prf_ctr"
    /\ prf.NBYTES > kDigestSize
    /\ loop.pc = "none"
    /\ ~in.null
    /\ loop' = [NoLoop EXCEPT !.pc = "for", !.in = in.bytes,
                              !.tmp = in.bytes \o <<g>>]
    /\ UNCHANGED <<lenCall, cipherVars, prf, ndebug, keyHolders, prfFirst, prfCall,
                   setVars>>

\* one iteration of the for loop: the condition holds, the body runs, then
\* pos += kDigestSize, i++
PrfLoopIter ==
    /\ loop.pc = "for"
    /\ loop.pos < prf.NBYTES
    /\ loop.iters < MaxLoopIters
    /\ LET \* tmp[length] = i
           tmp == [loop.tmp EXCEPT ![Len(loop.tmp)] = loop.i]
           n   == IF prf.NBYTES - loop.pos >= kDigestSize THEN kDigestSize
                  ELSE prf.NBYTES - loop.pos
           \* base_.hmac(tmp, length + 1, result.data() + pos, n)
           out == SubSeq(hmac(prf.key, tmp), 1, n)
       IN  loop' = [loop EXCEPT
                       !.tmp = tmp,
                       !.block = [pos |-> loop.pos, len |-> n, ctr |-> loop.i,
                                  bytes |-> out],
                       !.pos = pos_next(loop.pos),
                       !.wrapped = @ \/ (loop.pos + kDigestSize >= UINT16_MOD),
                       !.i = i_next(loop.i),
                       !.iters = @ + 1]
    /\ UNCHANGED <<lenCall, cipherVars, prf, ndebug, keyHolders, prfFirst, prfCall,
                   setVars>>

\* the loop condition fails: sodium_memzero(tmp, length + 1); delete[] tmp
PrfLoopExit ==
    /\ loop.pc = "for"
    /\ ~(loop.pos < prf.NBYTES)
    /\ loop' = [loop EXCEPT !.pc = "done", !.tmp = Zeros(Len(loop.tmp)),
                            !.released = TRUE]
    /\ UNCHANGED <<lenCall, cipherVars, prf, ndebug, keyHolders, prfFirst, prfCall,
                   setVars>>

----------------------------------------------------------------------------
(* SetHash: the wrapper of the multiset hash.  The group of the external      *)
(* engine (points of the curve under addition) is stood in for by the         *)
(* integers modulo GroupOrder under addition.                                 *)

\* order of the stand-in group
GroupOrder == 11

\* longest sequence of operations applied to one SetHash
MaxOps == 3

\* the strings added to and removed from the sets
Elements == {<<97>>, <<98>>}

SetHashes == {"h1", "h2"}

\* the hash-to-group mapping of the engine
HashToGroup(in) == (3 * WSum(in) + Len(in)) % GroupOrder

\* initial_state(ecmh)
initial_state == 0

\* add(ecmh, state, in)
add(state, in) == (state + HashToGroup(in)) % GroupOrder

\* remove(ecmh, state, in)
remove(state, in) == (state - HashToGroup(in)) % GroupOrder

\* equal(ecmh.curve(), a, b)
equal(a, b) == a = b

\* add_hash(ecmh, state, other): the group operation on two states
add_hash(state, other) == (state + other) % GroupOrder

\* remove_hash(ecmh, state, other)
remove_hash(state, other) == (state - other) % GroupOrder

\* invert(ecmh, state): the inverse of state in the group
invert(state) == (GroupOrder - state) % GroupOrder

\* the characters '0'..'9', 'a'..'f'
HexDigits == <<48, 49, 50, 51, 52, 53, 54, 55, 56, 57, 97, 98, 99, 100, 101, 102>>

HexValue(c) == CHOOSE d \in 0..15 : HexDigits[d + 1] = c

\* to_hex(ecmh, state): the group element written as two hexadecimal digits
to_hex(state) == <<HexDigits[(state \div 16) + 1], HexDigits[(state % 16) + 1]>>

\* from_hex(ecmh, hex): the group element two hexadecimal digits denote
from_hex(hex) == (16 * HexValue(hex[1]) + HexValue(hex[2])) % GroupOrder

\* SetHashImpl::SetHashImpl()
SetHashImpl_default == initial_state

\* SetHashImpl::SetHashImpl(const MSH::State& s) : state_(s)
SetHashImpl_state(s) == s

\* SetHashImpl::SetHashImpl(const std::string& hex) that ignores its argument
SetHashImpl_hex_ignored(hex) == initial_state

\* SetHashImpl::SetHashImpl(const std::string& hex)
SetHashImpl_hex(hex) == from_hex(hex)

\* SetHashImpl::hex()
hex(state) == to_hex(state)

\* SetHashImpl::add_element with the state replaced instead of combined
add_element_overwrite(state, in) == add(initial_state, in)

\* SetHashImpl::add_element(in)
add_element(state, in) == add(state, in)

\* SetHashImpl::remove_element that combines instead of cancelling
remove_element_adds(state, in) == add(state, in)

\* SetHashImpl::remove_element(in)
remove_element(state, in) == remove(state, in)

\* SetHashImpl::add_set that takes the other state over
add_set_overwrite(state, other) == other

\* SetHashImpl::add_set(const SetHashImpl* h), other being h->state_
add_set(state, other) == add_hash(state, other)

\* SetHashImpl::remove_set(const SetHashImpl* h)
remove_set(state, other) == remove_hash(state, other)

\* SetHashImpl::invert_set()
invert_set(state) == invert(state)

\* no object constructed or returned by a call
NoObject == -1

NoSetCall ==
    [op |-> "none", h |-> "none", in |-> <<>>, o |-> "none",
     before |-> [g \in SetHashes |-> initial_state], hex |-> <<>>, res |-> NoObject]

\* the record of a call on object h: before is state_ when the call starts
SetCallOf(op, h, in, o, hx, res) ==
    [op |-> op, h |-> h, in |-> in, o |-> o, before |-> state_, hex |-> hx,
     res |-> res]

\* SetHash::add_element(in) on object h
AddElement(h, in) ==
    /\ Len(applied[h]) < MaxOps
    /\ state_' = [state_ EXCEPT ![h] = add_element(state_[h], in)]
    /\ applied' = [applied EXCEPT ![h] = Append(@, <<"add", in>>)]
    /\ setCall' = SetCallOf("add_element", h, in, "none", <<>>, NoObject)
    /\ UNCHANGED <<lenVars, cipherVars, prfVars, lifeVars>>

\* SetHash::remove_element(in) on object h
RemoveElement(h, in) ==
    /\ Len(applied[h]) < MaxOps
    /\ state_' = [state_ EXCEPT ![h] = remove_element(state_[h], in)]
    /\ applied' = [applied EXCEPT ![h] = Append(@, <<"remove", in>>)]
    /\ setCall' = SetCallOf("remove_element", h, in, "none", <<>>, NoObject)
    /\ UNCHANGED <<lenVars, cipherVars, prfVars, lifeVars>>

\* SetHash::add_set(o) on object h, o another object (what the engine's
\* add_hash does of one state with itself is not in the sources); the
\* operation is recorded with the state it combined
AddSet(h, o) ==
    /\ h # o
    /\ Len(applied[h]) < MaxOps
    /\ state_' = [state_ EXCEPT ![h] = add_set(state_[h], state_[o])]
    /\ applied' = [applied EXCEPT ![h] = Append(@, <<"add_set", <<state_[o]>>>>)]
    /\ setCall' = SetCallOf("add_set", h, <<>>, o, <<>>, NoObject)
    /\ UNCHANGED <<lenVars, cipherVars, prfVars, lifeVars>>

\* SetHash::remove_set(o) on object h, o another object
RemoveSet(h, o) ==
    /\ h # o
    /\ Len(applied[h]) < MaxOps
    /\ state_' = [state_ EXCEPT ![h] = remove_set(state_[h], state_[o])]
    /\ applied' = [applied EXCEPT ![h] = Append(@, <<"remove_set", <<state_[o]>>>>)]
    /\ setCall' = SetCallOf("remove_set", h, <<>>, o, <<>>, NoObject)
    /\ UNCHANGED <<lenVars, cipherVars, prfVars, lifeVars>>

\* SetHash::hex() on object h
Hex(h) ==
    /\ setCall' = SetCallOf("hex", h, <<>>, "none", hex(state_[h]), NoObject)
    /\ UNCHANGED <<lenVars, cipherVars, prfVars, state_, applied, lifeVars>>

\* SetHash::SetHash(const std::string& hex) given what the last hex() call
\* returned: res is state_ of the object constructed
HexConstruct ==
    /\ setCall.op = "hex"
    /\ setCall' = SetCallOf("SetHash(hex)", setCall.h, <<>>, "none", setCall.hex,
                            SetHashImpl_hex(setCall.hex))
    /\ UNCHANGED <<lenVars, cipherVars, prfVars, state_, applied, lifeVars>>

\* SetHash::SetHash(const SetHash& o): new SetHashImpl(o.set_hash_imp_->hex());
\* res is state_ of the object constructed
CopyConstruct(o) ==
    /\ setCall' = SetCallOf("SetHash(const SetHash&)", "none", <<>>, o,
                            hex(state_[o]), SetHashImpl_hex(hex(state_[o])))
    /\ UNCHANGED <<lenVars, cipherVars, prfVars, state_, applied, lifeVars>>

\* SetHash::invert_set() on object h: res is state_ of the object returned
InvertSet(h) ==
    /\ setCall' = SetCallOf("invert_set", h, <<>>, "none", <<>>,
                            SetHashImpl_state(invert_set(state_[h])))
    /\ UNCHANGED <<lenVars, cipherVars, prfVars, state_, applied, lifeVars>>

----------------------------------------------------------------------------
(* SetHash objects and the SetHashImpl objects they point to.  A SetHash is   *)
(* a storage place (a variable of the caller, a temporary) holding the        *)
(* pointer set_hash_imp_; the SetHashImpl objects live at the addresses       *)
(* 1, 2, ... that new returns, in `impls`.                                    *)

\* the storage places of SetHash objects
Slots == {"a", "b"}

\* how many SetHashImpl objects are allocated in a run
MaxImpls == 3

\* how many times add_element is applied to one SetHashImpl
MaxWrites == 1

NoObjects == [s \in Slots |-> [life |-> "none", set_hash_imp_ |-> 0]]

NoLifeCall ==
    [op |-> "none", h |-> "none", o |-> "none", elided |-> FALSE,
     before |-> <<>>, src |-> 0, res |-> "none"]

\* the record of a call; before is the heap when a call that may change a
\* state_ starts (add_element, invert_set, operator=), src the pointer
\* set_hash_imp_ of the argument o when the call starts
LifeCallOf(op, h, o, elided, res) ==
    [op |-> op, h |-> h, o |-> o, elided |-> elided,
     before |-> IF op \in {"add_element", "invert_set", "operator="}
                THEN impls ELSE <<>>,
     src |-> IF o \in Slots THEN objects[o].set_hash_imp_ ELSE 0,
     res |-> res]

\* new SetHashImpl(...): the heap with one more object, at the next address
New(heap, state) == Append(heap, [state_ |-> state, deleted |-> 0, writes |-> 0])

\* delete p: the number of times the object at p was released (2: more than once)
Delete(heap, p) ==
    [heap EXCEPT ![p].deleted = IF @ < 2 THEN @ + 1 ELSE @]

\* what a read of state_ through p yields: the state of the object, or, once
\* the object is released, what its memory holds by then
Deref(heap, p) ==
    IF heap[p].deleted = 0 THEN {heap[p].state_}
    ELSE {heap[p].state_, GroupOrder - 1}

Live(s) == objects[s].life = "live"

\* SetHash::SetHash() at storage s
SetHash_default(s) ==
    /\ objects[s].life = "none"
    /\ Len(impls) < MaxImpls
    /\ impls' = New(impls, SetHashImpl_default)
    /\ objects' = [objects EXCEPT ![s] = [life |-> "live",
                                          set_hash_imp_ |-> Len(impls) + 1]]
    /\ lifeCall' = LifeCallOf("SetHash()", s, "none", FALSE, s)
    /\ UNCHANGED <<lenVars, cipherVars, prfVars, state_, applied, setCall>>

\* SetHash::SetHash(const std::string& hex) at storage s
SetHash_hex(s, hx) ==
    /\ objects[s].life = "none"
    /\ Len(impls) < MaxImpls
    /\ impls' = New(impls, SetHashImpl_hex(hx))
    /\ objects' = [objects EXCEPT ![s] = [life |-> "live",
                                          set_hash_imp_ |-> Len(impls) + 1]]
    /\ lifeCall' = LifeCallOf("SetHash(hex)", s, "none", FALSE, s)
    /\ UNCHANGED <<lenVars, cipherVars, prfVars, state_, applied, setCall>>

\* SetHash::SetHash(const SetHash& o) at storage s
SetHash_copy(s, o) ==
    /\ objects[s].life = "none"
    /\ Live(o)
    /\ Len(impls) < MaxImpls
    /\ \E st \in Deref(impls, objects[o].set_hash_imp_) :
          impls' = New(impls, SetHashImpl_hex(hex(st)))
    /\ objects' = [objects EXCEPT ![s] = [life |-> "live",
                                          set_hash_imp_ |-> Len(impls) + 1]]
    /\ lifeCall' = LifeCallOf("SetHash(const SetHash&)", s, o, FALSE, s)
    /\ UNCHANGED <<lenVars, cipherVars, prfVars, state_, applied, setCall>>

\* SetHash::SetHash(const SetHash&& o) at storage s: o is const, so
\* std::move(o.set_hash_imp_) is a const rvalue and the pointer is copied;
\* o keeps its pointer and stays an object whose destructor will run
SetHash_move(s, o) ==
    /\ objects[s].life = "none"
    /\ Live(o)
    /\ objects' = [objects EXCEPT ![s] = [life |-> "live",
                                          set_hash_imp_ |-> objects[o].set_hash_imp_]]
    /\ lifeCall' = LifeCallOf("SetHash(const SetHash&&)", s, o, FALSE, s)
    /\ UNCHANGED <<lenVars, cipherVars, prfVars, state_, applied, setCall, impls>>

\* SetHash::~SetHash() of the object at storage s
SetHash_destroy(s) ==
    /\ Live(s)
    /\ impls' = Delete(impls, objects[s].set_hash_imp_)
    /\ objects' = [objects EXCEPT ![s].life = "dead"]
    /\ lifeCall' = LifeCallOf("~SetHash()", s, "none", FALSE, "none")
    /\ UNCHANGED <<lenVars, cipherVars, prfVars, state_, applied, setCall>>

\* SetHash::operator=(const SetHash& h): a = b, for any two objects (a and b
\* may be the same object, or share their SetHashImpl)
SetHash_assign(a, b) ==
    /\ Live(a)
    /\ Live(b)
    /\ Len(impls) < MaxImpls
    /\ LET \* delete set_hash_imp_
           heap1 == Delete(impls, objects[a].set_hash_imp_)
       IN  \* new SetHashImpl(*h.set_hash_imp_)
           \E st \in Deref(heap1, objects[b].set_hash_imp_) :
              impls' = New(heap1, st)
    /\ objects' = [objects EXCEPT ![a].set_hash_imp_ = Len(impls) + 1]
    /\ lifeCall' = LifeCallOf("operator=", a, b, FALSE, a)
    /\ UNCHANGED <<lenVars, cipherVars, prfVars, state_, applied, setCall>>

\* SetHash::add_element(in) on the object at storage s
SetHash_add_element(s, in) ==
    /\ Live(s)
    /\ impls[objects[s].set_hash_imp_].writes < MaxWrites
    /\ impls' = [impls EXCEPT
                    ![objects[s].set_hash_imp_].state_ = add_element(@, in),
                    ![objects[s].set_hash_imp_].writes = @ + 1]
    /\ lifeCall' = LifeCallOf("add_element", s, "none", FALSE, "none")
    /\ UNCHANGED <<lenVars, cipherVars, prfVars, state_, applied, setCall, objects>>

\* g = h.invert_set(), the returned object being at storage g.  The local
\* `SetHash h` is constructed, its SetHashImpl assigned the inverted state, and
\* h is returned by value: either the copy is elided (h is constructed in g),
\* or g is move-constructed from h and h is destroyed
SetHash_invert_set(h, g, elided) ==
    /\ Live(h)
    /\ objects[g].life = "none"
    /\ Len(impls) < MaxImpls
    /\ \E st \in Deref(impls, objects[h].set_hash_imp_) :
          LET \* SetHash h;
              p     == Len(impls) + 1
              heap1 == New(impls, SetHashImpl_default)
              \* *h.set_hash_imp_ = SetHashImpl(set_hash_imp_->invert_set())
              heap2 == [heap1 EXCEPT ![p].state_ =
                           SetHashImpl_state(invert_set(st))]
          IN  \* return h
              impls' = IF elided THEN heap2 ELSE Delete(heap2, p)
    /\ objects' = [objects EXCEPT ![g] = [life |-> "live",
                                          set_hash_imp_ |-> Len(impls) + 1]]
    /\ lifeCall' = LifeCallOf("invert_set", h, "none", elided, g)
    /\ UNCHANGED <<lenVars, cipherVars, prfVars, state_, applied, setCall>>

----------------------------------------------------------------------------
(* Specifications *)

Init ==
    /\ lenCall = NoLenCall
    /\ callerKey \in Keys
    /\ key_ = <<>>
    /\ enc = NoEnc
    /\ call = NoCall
    /\ prf = NoPrf
    /\ ndebug = FALSE
    /\ keyHolders = {}
    /\ prfFirst = [b \in PrfMsgs |-> <<>>]
    /\ prfCall = NoPrfCall
    \* SetHash::SetHash(): SetHashImpl() sets state_ = initial_state(ecmh())
    /\ state_ = [h \in SetHashes |-> initial_state]
    /\ applied = [h \in SetHashes |-> <<>>]
    /\ setCall = NoSetCall
    /\ objects = NoObjects
    /\ impls = <<>>
    /\ lifeCall = NoLifeCall
    /\ loop = NoLoop

NextLen ==
    \/ \E l \in 0..SIZE_MAX : CiphertextLength(l)
    \/ \E c \in 0..SIZE_MAX : PlaintextLength(c)
    \/ PlaintextLengthOfCiphertextLength

SpecLen == Init /\ [][NextLen]_vars

NextCipher ==
    \/ Construct
    \/ \E in \in Plaintexts, o \in OutSamples, nonce \in Nonces, g \in GarbageBytes :
          Encrypt(in, o, nonce, g)
    \/ \E in \in DecryptInputs, o \in OutSamples : Decrypt(in, o)
    \/ \E in \in DecryptInputs : DecryptRaw(in, 170)

SpecCipher == Init /\ [][NextCipher]_vars

\* Ownership of the key: the constructors of Cipher and of both Prf templates,
\* and the operations of a Prf that concern its key
NextKey ==
    \/ Construct
    \/ \E n \in NBytesSamples : PrfConstruct(n)
    \/ \E ver \in {"prf_ctr", "prf_single"}, n \in NBytesSamples, k \in Keys :
          PrfConstructRandom(ver, n, k)
    \/ \E n \in NBytesSamples : PrfSingleConstruct(n)
    \/ PrfSingleCopy
    \/ PrfSingleKey
    \/ PrfSingleKeyData

SpecKey == Init /\ [][NextKey]_vars

\* Evaluation of a Prf: the state after construction (by Prf(), which draws
\* the key) is any Prf object of either template, any sampled NBYTES and key,
\* in either build
InitPrf ==
    /\ lenCall = NoLenCall
    /\ callerKey = <<>>
    /\ key_ = <<>>
    /\ enc = NoEnc
    /\ call = NoCall
    /\ prf \in {[ver |-> v, NBYTES |-> n, key |-> k, from |-> "random"] :
                   v \in {"prf_ctr", "prf_single"}, n \in NBytesSamples, k \in Keys}
    /\ ndebug \in BOOLEAN
    /\ keyHolders = {}
    /\ prfFirst = [b \in PrfMsgs |-> <<>>]
    /\ prfCall = NoPrfCall
    /\ state_ = [h \in SetHashes |-> initial_state]
    /\ applied = [h \in SetHashes |-> <<>>]
    /\ setCall = NoSetCall
    /\ objects = NoObjects
    /\ impls = <<>>
    /\ lifeCall = NoLifeCall
    /\ loop = NoLoop

NextPrf ==
    \/ \E in \in PrfInputs, g \in GarbageBytes : PrfEval(in, g)
    \/ \E in \in PrfInputs, g \in GarbageBytes : PrfSingleEval(in, g)
    \/ \E in \in PrfInputs, g \in GarbageBytes : PrfSingleEvalRaw(in, g)

SpecPrf == InitPrf /\ [][NextPrf]_vars

NextSetHash ==
    \/ \E h \in SetHashes, in \in Elements : AddElement(h, in)
    \/ \E h \in SetHashes, in \in Elements : RemoveElement(h, in)

SpecSetHash == Init /\ [][NextSetHash]_vars

\* The counter-mode loop: a Prf of the counter-mode template is constructed
\* (by Prf(), which draws the key) with one of the lengths of LoopNBytes
InitPrfLoop ==
    /\ lenCall = NoLenCall
    /\ callerKey = <<>>
    /\ key_ = <<>>
    /\ enc = NoEnc
    /\ call = NoCall
    /\ prf \in {[ver |-> "prf_ctr", NBYTES |-> n, key |-> k, from |-> "random"] :
                   n \in LoopNBytes, k \in Keys}
    /\ ndebug = FALSE
    /\ keyHolders = {}
    /\ prfFirst = [b \in PrfMsgs |-> <<>>]
    /\ prfCall = NoPrfCall
    /\ loop = NoLoop
    /\ state_ = [h \in SetHashes |-> initial_state]
    /\ applied = [h \in SetHashes |-> <<>>]
    /\ setCall = NoSetCall
    /\ objects = NoObjects
    /\ impls = <<>>
    /\ lifeCall = NoLifeCall

NextPrfLoop ==
    \/ \E in \in PrfInputs : PrfLoopEnter(in, 170)
    \/ PrfLoopIter
    \/ PrfLoopExit

SpecPrfLoop == InitPrfLoop /\ [][NextPrfLoop]_vars

\* how many operations the two objects underwent, together
TotalOps == Len(applied["h1"]) + Len(applied["h2"])

\* longest sequence of operations applied to the two objects together when
\* whole sets are combined
MaxAlgebraOps == 4

\* The operations of SetHash on two objects constructed by SetHash().  The
\* runs explored are: up to MaxAlgebraOps operations that change a state,
\* then the operations that read one (hex, the constructors from a hex string
\* and from an object, invert_set)
Changing == setCall.op \in {"none", "add_element", "remove_element", "add_set",
                            "remove_set"}

MayChange == Changing /\ TotalOps < MaxAlgebraOps

NextSetAlgebra ==
    \/ \E h \in SetHashes, in \in Elements : MayChange /\ AddElement(h, in)
    \/ \E h \in SetHashes, in \in Elements : MayChange /\ RemoveElement(h, in)
    \/ \E h \in SetHashes, o \in SetHashes : MayChange /\ AddSet(h, o)
    \/ \E h \in SetHashes, o \in SetHashes : MayChange /\ RemoveSet(h, o)
    \/ \E h \in SetHashes : Changing /\ Hex(h)
    \/ HexConstruct
    \/ \E o \in SetHashes : Changing /\ CopyConstruct(o)
    \/ \E h \in SetHashes : Changing /\ InvertSet(h)

SpecSetAlgebra == Init /\ [][NextSetAlgebra]_vars

\* Construction, assignment, use and destruction of SetHash objects
NextSetLife ==
    \/ \E s \in Slots : SetHash_default(s)
    \/ \E s \in Slots, in \in Elements :
          SetHash_hex(s, hex(add_element(initial_state, in)))
    \/ \E s \in Slots, o \in Slots : SetHash_copy(s, o)
    \/ \E s \in Slots, o \in Slots : SetHash_move(s, o)
    \/ \E s \in Slots : SetHash_destroy(s)
    \/ \E a \in Slots, b \in Slots : SetHash_assign(a, b)
    \/ \E s \in Slots, in \in Elements : SetHash_add_element(s, in)
    \/ \E h \in Slots, g \in Slots, elided \in BOOLEAN :
          SetHash_invert_set(h, g, elided)

SpecSetLife == Init /\ [][NextSetLife]_vars

----------------------------------------------------------------------------
(* Properties of the Cipher *)

Range(q) == {q[i] : i \in 1..Len(q)}

\* the subkey the Cipher derives for the nonce that starts the string c
SubkeyOf(c) ==
    crypto_generichash_blake2b_salt_personal(
        crypto_aead_chacha20poly1305_KEYBYTES, key_,
        ReadAt(c, 0, NONCE_SIZE), hash_personal__)

\* C1: decrypt, given a ciphertext that encrypt produced under the same Cipher
\* for a non-empty plaintext P, whatever nonce was drawn, succeeds and assigns
\* exactly P to the output.
C1_RoundTrip ==
    (call.op = "decrypt" /\ enc.ct # <<>> /\ call.in = enc.ct)
        => (call.err = "none" /\ call.out = enc.pt)

C1_Witness ==
    /\ call.op = "decrypt"
    /\ call.in = enc.ct
    /\ call.err = "none"
    /\ Len(enc.pt) = MaxPlainLen
    /\ enc.nonce # Zeros(NONCE_SIZE)
    /\ call.outBefore # <<>>
    /\ call.out = enc.pt

\* C2: decrypt, given a ciphertext of encrypt with one bit flipped (anywhere:
\* nonce, encrypted body or tag), ends with the decryption failure
\* (runtime_error) and leaves the caller's output as it was.
C2_TamperDetected ==
    (call.op = "decrypt" /\ enc.ct # <<>> /\ IsBitFlip(enc.ct, call.in))
        => (call.err = "runtime_error" /\ call.out = call.outBefore)

\* a flip in the last byte of the nonce, which the AEAD nonce does not cover
C2_Witness ==
    /\ call.op = "decrypt"
    /\ enc.ct # <<>>
    /\ IsBitFlip(enc.ct, call.in)
    /\ call.in[NONCE_SIZE] # enc.ct[NONCE_SIZE]
    /\ call.err = "runtime_error"
    /\ call.outBefore # <<>>

\* C3 as stated: for every plaintext length L >= 1 of the size type,
\* ciphertext_length(L) is the integer L + NONCE_SIZE + TAG_SIZE and
\* plaintext_length(ciphertext_length(L)) is L.
C3_LengthContract_AllLengths ==
    /\ (lenCall.op = "ciphertext_length" /\ lenCall.arg >= 1)
          => lenCall.res
                = lenCall.arg + NONCE_SIZE + crypto_aead_chacha20poly1305_IETF_ABYTES
    /\ (lenCall.op = "plaintext_length_of_ciphertext_length" /\ lenCall.of >= 1)
          => lenCall.res = lenCall.of

\* C3 (amended): the same for every L with
\* 1 <= L <= SIZE_MAX - NONCE_SIZE - TAG_SIZE, the lengths whose ciphertext
\* length the size type can represent.
C3_LengthContract ==
    LET fits(l) ==
            /\ l >= 1
            /\ l <= SIZE_MAX - NONCE_SIZE - crypto_aead_chacha20poly1305_IETF_ABYTES
    IN  /\ (lenCall.op = "ciphertext_length" /\ fits(lenCall.arg))
              => lenCall.res
                    = lenCall.arg + NONCE_SIZE
                      + crypto_aead_chacha20poly1305_IETF_ABYTES
        /\ (lenCall.op = "plaintext_length_of_ciphertext_length" /\ fits(lenCall.of))
              => lenCall.res = lenCall.of

\* the largest length that fits, taken through both functions
C3_Witness ==
    /\ lenCall.op = "plaintext_length_of_ciphertext_length"
    /\ lenCall.of = SIZE_MAX - NONCE_SIZE - crypto_aead_chacha20poly1305_IETF_ABYTES
    /\ lenCall.arg = SIZE_MAX
    /\ lenCall.res = lenCall.of

\* C4: encrypt of the empty string ends with invalid_argument having invoked
\* nothing (no random_bytes, no unlock of the key, no AEAD) and leaves the
\* caller's output as it was.
C4_EmptyPlaintextRejected ==
    (call.op = "encrypt" /\ call.in = <<>>)
        => /\ call.err = "invalid_argument"
           /\ call.trace = <<>>
           /\ call.nonce = <<>>
           /\ call.out = call.outBefore

C4_Witness ==
    /\ call.op = "encrypt"
    /\ call.in = <<>>
    /\ call.err = "invalid_argument"
    /\ call.outBefore # <<>>
    /\ enc.ct # <<>>

\* C5 as stated: both overloads of decrypt end with invalid_argument whenever
\* the ciphertext length is <= NONCE_SIZE + TAG_SIZE, without unlocking the
\* key, invoking the AEAD or writing to the output.
C5_ShortCiphertextRejected ==
    (/\ call.op \in {"decrypt", "decrypt_raw"}
     /\ Len(call.in) <= NONCE_SIZE + crypto_aead_chacha20poly1305_IETF_ABYTES)
        => /\ call.err = "invalid_argument"
           /\ "unlock" \notin Range(call.trace)
           /\ "aead_decrypt" \notin Range(call.trace)
           /\ call.out = call.outBefore

\* C6: a successful encrypt of L bytes yields L + NONCE_SIZE + TAG_SIZE bytes:
\* the nonce drawn in that call, then the AEAD output of the plaintext under
\* the subkey derived from the master key and that nonce; decrypt derives its
\* subkey from the first NONCE_SIZE bytes of its input, hence the same subkey
\* for that ciphertext.
C6_CiphertextLayout ==
    /\ (call.op = "encrypt" /\ call.err = "none")
          => /\ Len(call.out)
                  = Len(call.in) + NONCE_SIZE
                    + crypto_aead_chacha20poly1305_IETF_ABYTES
             /\ call.nonce \in Nonces
             /\ ReadAt(call.out, 0, NONCE_SIZE) = call.nonce
             /\ call.subkey = SubkeyOf(call.nonce)
             /\ ReadAt(call.out, NONCE_SIZE,
                       Len(call.in) + crypto_aead_chacha20poly1305_IETF_ABYTES)
                  = crypto_aead_chacha20poly1305_ietf_encrypt(
                        call.in,
                        ReadAt(call.nonce, 0,
                               crypto_aead_chacha20poly1305_IETF_NPUBBYTES),
                        SubkeyOf(call.nonce))
    /\ (call.op \in {"decrypt", "decrypt_raw"} /\ call.subkey # <<>>)
          => call.subkey = SubkeyOf(call.in)
    /\ (call.op = "decrypt" /\ enc.ct # <<>> /\ call.in = enc.ct)
          => call.subkey = enc.subkey

C6_Witness ==
    /\ call.op = "decrypt"
    /\ enc.ct # <<>>
    /\ call.in = enc.ct
    /\ Len(enc.ct) = MaxPlainLen + NONCE_SIZE + crypto_aead_chacha20poly1305_IETF_ABYTES
    /\ ReadAt(enc.ct, 0, NONCE_SIZE) = enc.nonce
    /\ enc.nonce # Zeros(NONCE_SIZE)
    /\ call.subkey = enc.subkey
    /\ enc.subkey # <<>>

C17_UnlockedOnlyForDerivation ==
    (call.op # "none")
        => /\ \A n \in 1..Len(call.trace) :
                LET locked == KeyLockedAfter(call.trace, n - 1)
                IN  /\ (call.trace[n] = "unlock") => locked
                    /\ (call.trace[n] \in {"aead_encrypt", "aead_decrypt"}) => locked
                    /\ (call.trace[n] = "generichash") => ~locked
                    /\ (~locked) => call.trace[n] \in {"generichash", "lock"}
           /\ KeyLockedAfter(call.trace, Len(call.trace))

\* a decrypt that throws after an encrypt on the same Cipher, both having
\* unlocked the key
C17_Witness ==
    /\ call.op = "decrypt"
    /\ call.err = "runtime_error"
    /\ enc.ct # <<>>
    /\ "unlock" \in Range(call.trace)
    /\ "aead_decrypt" \in Range(call.trace)
    /\ KeyLockedAfter(call.trace, Len(call.trace))
    /\ ~KeyLockedAfter(call.trace, 1)

----------------------------------------------------------------------------
(* Properties of the Prf templates *)

PrfEvaluated == prfCall.op \in {"prf", "prf_raw"} /\ prfCall.err = "none"

\* C7 as stated: for a fixed Prf object and input, every call of prf yields
\* the same NBYTES bytes (those of the first call on that input), for every
\* NBYTES the template admits.
C7_PrfDeterministic ==
    PrfEvaluated
        => /\ Len(prfCall.res) = prf.NBYTES
           /\ prfCall.res = prfFirst[prfCall.in.bytes]

\* C8 as stated: every overload of prf writes each of the NBYTES bytes of its
\* output by the keyed hash, and writes no byte beyond them, whether NBYTES is
\* at most the digest size or above it.
C8_PrfWritesExactlyNBytes ==
    PrfEvaluated
        => /\ \A b \in 0..(prf.NBYTES - 1) :
                \E i \in 1..Len(prfCall.blocks) :
                    /\ prfCall.blocks[i].pos <= b
                    /\ b < prfCall.blocks[i].pos + prfCall.blocks[i].len
           /\ \A i \in 1..Len(prfCall.blocks) :
                prfCall.blocks[i].pos + prfCall.blocks[i].len <= prf.NBYTES

\* C9 as stated: once a Cipher or a Prf is constructed from a key of the
\* caller, the caller's key object is empty and nothing but the primitive
\* holds the key bytes (no accessor, no copy).
C9_SoleKeyHolder ==
    /\ (key_ # <<>>) => (callerKey = <<>>)
    /\ (prf.from = "caller") => (callerKey = <<>> /\ keyHolders = {})

CeilDiv(a, b) == (a + b - 1) \div b

\* C18 as stated: for NBYTES above the digest size D, the k-th block written
\* (k = 0, 1, 2, ...) is at offset k*D, has min(D, NBYTES - k*D) bytes, and is
\* the keyed hash of the input followed by the counter value k; the loop ends
\* after ceil(NBYTES / D) blocks.
C18_CounterModeBlocks ==
    (loop.pc \in {"for", "done"} /\ loop.iters > 0)
        => LET k == loop.iters - 1
               n == IF prf.NBYTES - k * kDigestSize >= kDigestSize
                    THEN kDigestSize ELSE prf.NBYTES - k * kDigestSize
           IN  /\ loop.block.pos = k * kDigestSize
               /\ loop.block.len = n
               /\ loop.block.ctr = k
               /\ loop.block.bytes = SubSeq(hmac(prf.key, loop.in \o <<k>>), 1, n)
               /\ (loop.pc = "done") => (loop.iters = CeilDiv(prf.NBYTES, kDigestSize))

\* C20 as stated: for every NBYTES the template admits the loop makes exactly
\* ceil(NBYTES / D) iterations and ends, pos never wraps around, and tmp is
\* then zeroed and released.
C20_LoopEndsAndErasesTmp ==
    (loop.pc \in {"for", "done"})
        => /\ loop.iters <= CeilDiv(prf.NBYTES, kDigestSize)
           /\ ~loop.wrapped
           /\ (loop.pc = "done")
                 => /\ loop.iters = CeilDiv(prf.NBYTES, kDigestSize)
                    /\ loop.tmp = Zeros(Len(loop.in) + 1)
                    /\ loop.released

----------------------------------------------------------------------------
(* Properties of SetHash *)

Count(q, x) == Cardinality({i \in 1..Len(q) : q[i] = x})

\* q and r are the same operations, in any order
SameOperations(q, r) ==
    /\ Len(q) = Len(r)
    /\ \A x \in Range(q) \cup Range(r) : Count(q, x) = Count(r, x)

\* C10: two SetHash objects that started empty and to which the same
\* add_element / remove_element operations were applied, in any order, are
\* equal (operator==).
C10_OrderIndependent ==
    \A g \in SetHashes, h \in SetHashes :
        SameOperations(applied[g], applied[h]) => equal(state_[g], state_[h])

\* add(a); add(b) on one object, add(b); add(a) on the other, with a and b
\* of different, non-neutral hashes
C10_Witness ==
    /\ applied["h1"] = <<<<"add", <<97>>>>, <<"add", <<98>>>>>>
    /\ applied["h2"] = <<<<"add", <<98>>>>, <<"add", <<97>>>>>>
    /\ HashToGroup(<<97>>) # HashToGroup(<<98>>)
    /\ HashToGroup(<<97>>) # initial_state
    /\ HashToGroup(<<98>>) # initial_state
    /\ state_["h1"] # initial_state
    /\ equal(state_["h1"], state_["h2"])

\* C11: add_element(x) directly followed by remove_element(x) on the same
\* object leaves the object in a state equal to the one it had before the
\* add_element, whatever that state was.
C11_AddThenRemoveCancels ==
    [][(/\ setCall.op = "add_element"
        /\ setCall'.op = "remove_element"
        /\ setCall'.h = setCall.h
        /\ setCall'.in = setCall.in)
          => equal(state_'[setCall.h], setCall.before[setCall.h])]_vars

\* add(b); add(a); remove(a) on one object: the state is the one after add(b)
C11_Witness ==
    /\ setCall.op = "remove_element"
    /\ setCall.h = "h1"
    /\ applied["h1"] = <<<<"add", <<98>>>>, <<"add", <<97>>>>, <<"remove", <<97>>>>>>
    /\ state_["h1"] = add_element(initial_state, <<98>>)
    /\ state_["h1"] # initial_state
    /\ setCall.before["h1"] # state_["h1"]

\* every operation of q is an add_element
OnlyAdds(q) == \A i \in 1..Len(q) : q[i][1] = "add"

\* state after add_element of the elements of the first n operations of q
RECURSIVE AddAll(_, _, _)
AddAll(state, q, n) ==
    IF n = 0 THEN state ELSE add_element(AddAll(state, q, n - 1), q[n][2])

\* state after remove_element of the elements of the first n operations of q
RECURSIVE RemoveAll(_, _, _)
RemoveAll(state, q, n) ==
    IF n = 0 THEN state ELSE remove_element(RemoveAll(state, q, n - 1), q[n][2])

\* C12: when o was built from the empty hash by add_element calls only,
\* h.add_set(o) leaves h as adding those elements to h one by one does,
\* h.remove_set(o) as removing them one by one does, and o is unchanged.
C12_SetOpsAreElementwise ==
    (setCall.op \in {"add_set", "remove_set"} /\ OnlyAdds(applied[setCall.o]))
        => LET h == setCall.h
               o == setCall.o
               M == applied[o]
           IN  /\ (setCall.op = "add_set")
                     => equal(state_[h], AddAll(setCall.before[h], M, Len(M)))
               /\ (setCall.op = "remove_set")
                     => equal(state_[h], RemoveAll(setCall.before[h], M, Len(M)))
               /\ equal(state_[o], setCall.before[o])

\* h1 is not empty, h2 holds two different elements, h1.add_set(h2)
C12_Witness ==
    /\ setCall.op = "add_set"
    /\ setCall.h = "h1"
    /\ setCall.o = "h2"
    /\ applied["h2"] = <<<<"add", <<97>>>>, <<"add", <<98>>>>>>
    /\ setCall.before["h1"] # initial_state
    /\ state_["h1"] # setCall.before["h1"]
    /\ state_["h1"] # state_["h2"]

\* C13 as stated: g = h.invert_set() is a live object whose SetHashImpl is not
\* released and is referred to by no other object, h combined with g is the
\* empty hash, and h's state is what it was.
C13_InverseIsIndependentObject ==
    (/\ lifeCall.op = "invert_set"
     /\ lifeCall.before[objects[lifeCall.h].set_hash_imp_].deleted = 0)
        => LET ph == objects[lifeCall.h].set_hash_imp_
               pg == objects[lifeCall.res].set_hash_imp_
           IN  /\ Live(lifeCall.res)
               /\ impls[pg].deleted = 0
               /\ \A t \in Slots \ {lifeCall.res} :
                     Live(t) => objects[t].set_hash_imp_ # pg
               /\ equal(add_set(impls[ph].state_, impls[pg].state_), initial_state)
               /\ equal(impls[ph].state_, lifeCall.before[ph].state_)

\* C14: the object constructed from h.hex() is equal to h, and so is the
\* object copy-constructed from h.
C14_HexRoundTrip ==
    /\ (setCall.op = "SetHash(hex)")
          => /\ setCall.hex = hex(state_[setCall.h])
             /\ equal(setCall.res, state_[setCall.h])
    /\ (setCall.op = "SetHash(const SetHash&)")
          => equal(setCall.res, state_[setCall.o])

\* a state whose encoding has a letter digit, taken through hex() and back
C14_Witness ==
    /\ setCall.op = "SetHash(hex)"
    /\ state_[setCall.h] # initial_state
    /\ setCall.hex[2] = HexDigits[11]
    /\ setCall.res = state_[setCall.h]

\* C19 as stated: no two live SetHash objects refer to the same SetHashImpl,
\* add_element on one object changes the state of no other, and every
\* SetHashImpl is released exactly once (never twice, and once no live object
\* refers to it).
C19_ExclusiveOwnership ==
    /\ \A s \in Slots, t \in Slots :
          (s # t /\ Live(s) /\ Live(t))
              => objects[s].set_hash_imp_ # objects[t].set_hash_imp_
    /\ \A p \in 1..Len(impls) :
          /\ impls[p].deleted <= 1
          /\ (\A s \in Slots : Live(s) => objects[s].set_hash_imp_ # p)
                => impls[p].deleted = 1
    /\ (lifeCall.op = "add_element")
          => \A t \in Slots \ {lifeCall.h} :
                Live(t) => impls[objects[t].set_hash_imp_].state_
                              = lifeCall.before[objects[t].set_hash_imp_].state_

\* C21 as stated: after a = b, for any two objects a and b (the same object
\* included) of which b was valid, a is equal to what b was, b is still a
\* valid object in the state it had, and the SetHashImpl the assignment read
\* was not released when it was read.
C21_AssignmentCopiesSource ==
    (/\ lifeCall.op = "operator="
     /\ lifeCall.before[lifeCall.src].deleted = 0)
        => LET a  == lifeCall.h
               b  == lifeCall.o
               ps == lifeCall.src
               s  == lifeCall.before[ps].state_
           IN  /\ equal(impls[objects[a].set_hash_imp_].state_, s)
               /\ impls[objects[b].set_hash_imp_].deleted = 0
               /\ equal(impls[objects[b].set_hash_imp_].state_, s)
               /\ impls[ps].deleted = 0

====
